---- MODULE Spec2Model ----
(***************************************************************************)
(* Model of water_lab_wgpu: the winit event loop (src/main.rs), the frame  *)
(* cycle State::update / State::render / State::resize (src/app/state.rs), *)
(* the modal keyboard controller and the blocking debug readbacks          *)
(* (src/app/controls.rs) and the parameter / shadow-buffer updates         *)
(* (src/updates/param_updates.rs).                                         *)
(*                                                                         *)
(* f32 values are modelled as exact rationals <<n, d>> (d > 0, lowest      *)
(* terms): rounding of the float operations is not modelled.               *)
(* The wgpu device is the environment: the result of a map request and of  *)
(* a surface acquisition is an input of the frame that performs it.        *)
(***************************************************************************)
EXTENDS Integers, Sequences, FiniteSets, TLC

\* ---------------------------------------------------------------- bounds
\* Largest number of keys held down at the same time.
MaxHeld == 3
\* Largest number of polls that execute a parameter-mutating branch.
MaxTicks == 2

\* ------------------------------------------------------------- constants
SCREEN_WIDTH == 1376
SCREEN_HEIGHT == 768
\* VERTICES.len(): the full-screen quad drawn by State::render.
NumVertices == 6
\* A window size the window source may report other than the initial one.
OtherWidth == 800
OtherHeight == 600

\* ------------------------------------------------------------ rationals
RECURSIVE GCD(_, _)
GCD(a, b) == IF b = 0 THEN a ELSE GCD(b, a % b)

Abs(n) == IF n < 0 THEN -n ELSE n

\* <<n, d>> in lowest terms with d > 0.
Norm(n, d) ==
    LET g == GCD(Abs(n), Abs(d))
        s == IF d < 0 THEN -1 ELSE 1
    IN  <<(s * n) \div g, (s * d) \div g>>

Rat(n, d) == Norm(n, d)
RAdd(a, b) == Norm(a[1] * b[2] + b[1] * a[2], a[2] * b[2])
RSub(a, b) == Norm(a[1] * b[2] - b[1] * a[2], a[2] * b[2])
RMul(a, b) == Norm(a[1] * b[1], a[2] * b[2])
RDiv(a, b) == Norm(a[1] * b[2], a[2] * b[1])
RLt(a, b) == a[1] * b[2] < b[1] * a[2]
RLe(a, b) == a[1] * b[2] <= b[1] * a[2]
\* f32::max
RMax(a, b) == IF RLt(a, b) THEN b ELSE a
Zero == Rat(0, 1)

\* ------------------------------------------------------------------ keys
ModeSelectKeys == {"KeyD", "Digit1", "Digit2", "Digit3", "KeyP"}
Keys ==
    ModeSelectKeys \cup
    {"KeyS", "KeyE", "KeyW", "KeyX", "KeyZ", "ShiftLeft",
     "ArrowUp", "ArrowDown", "ArrowLeft", "ArrowRight"}

\* enum KeyboardMode
Modes == {"DEBUG", "VIEW", "TERRAIN", "RAY", "PRINT"}

\* The host-readable shadow buffers of struct Buffers.
ShadowBuffers ==
    {"cpu_read_generic_debug", "cpu_read_debug_array1", "cpu_read_debug_array2"}

MapResults == {"Ok", "Err"}
\* Result of Surface::get_current_texture.
SurfaceResults == {"Ok", "Lost", "OutOfMemory", "Outdated", "Timeout"}

\* ----------------------------------------------------------------- state
VARIABLES
    keys,            \* KeyboardState.keys
    mode,            \* KeyboardState.mode
    params,          \* State.params: ray_params, view_params, terrain_params
    buffers,         \* last contents written to the GPU parameter buffers
    mapped,          \* shadow buffers currently mapped for host reads
    size,            \* State.size
    surface_config,  \* State.surface_config (width, height)
    exiting,         \* elwt.exit() was called
    trace,           \* operations performed by the most recent event handler
    mapped_at_copy,  \* shadow buffers mapped when the last frame submitted its copy
    pending_resize,  \* last non-zero Resized delivered since the last render
    size_at_render,  \* <<State.size, surface_config>> when the last render began
    nticks,          \* polls that executed a parameter-mutating branch
    copied,          \* shadow buffers a device-to-shadow copy was ever submitted into
    redraw_requested, \* a redraw was requested from the window and not yet delivered
    frames,          \* parity of the number of frames handled, where frames are counted
    buffer_size,     \* State.buffers: the size in bytes of each wgpu::Buffer
    bind_groups,     \* State.bind_groups: layouts and the groups created against them
    pipelines,       \* State.pipelines: the bind group layouts of each pipeline layout
    transfers,       \* queue writes and buffer copies of the most recent event handler
    printed          \* the print loop the most recent handler ran over mapped data

vars ==
    <<keys, mode, params, buffers, mapped, size, surface_config, exiting,
      trace, mapped_at_copy, pending_resize, size_at_render, nticks, copied,
      redraw_requested, frames, buffer_size, bind_groups, pipelines, transfers,
      printed>>

\* No print loop over mapped data was run.
NoPrint == [loop |-> "none", buffers |-> <<>>, T |-> ""]

\* The program state as one record, so that the handlers compose as in the source.
Here ==
    [keys |-> keys, mode |-> mode, params |-> params, buffers |-> buffers,
     mapped |-> mapped, size |-> size, surface_config |-> surface_config,
     exiting |-> exiting, trace |-> <<>>, mapped_at_copy |-> mapped_at_copy,
     pending_resize |-> pending_resize, size_at_render |-> size_at_render,
     ticked |-> FALSE, copied |-> copied,
     redraw_requested |-> redraw_requested, frames |-> frames,
     buffer_size |-> buffer_size, bind_groups |-> bind_groups,
     pipelines |-> pipelines, transfers |-> <<>>, printed |-> NoPrint]

\* One entry of the trace: operation, the object it acts on, a detail.
Op(o, target, detail) == <<o, target, detail>>
Log(s, ops) == [s EXCEPT !.trace = @ \o ops]

\* queue.write_buffer(buffer, offset, data) with data of `len` bytes.
Write(s, buffer, offset, len) ==
    [s EXCEPT !.transfers =
        Append(@, [op |-> "write_buffer", dst |-> buffer, dst_offset |-> offset,
                   len |-> len])]

\* encoder.copy_buffer_to_buffer(src, src_offset, dst, dst_offset, len).
Copy(s, src, src_offset, dst, dst_offset, len) ==
    [s EXCEPT !.transfers =
        Append(@, [op |-> "copy_buffer_to_buffer", src |-> src,
                   src_offset |-> src_offset, dst |-> dst,
                   dst_offset |-> dst_offset, len |-> len])]

NoResize == [width |-> 0, height |-> 0]

\* ------------------------------------------------------- initialization
init_params ==
    [ray_params |->
        [epsilon |-> Rat(1, 100), max_dist |-> Rat(1500, 1), max_steps |-> Rat(2500, 1)],
     view_params |->
        [x_shift |-> Zero, y_shift |-> Zero, zoom |-> Rat(1, 1),
         x_rot |-> Zero, y_rot |-> Zero,
         time_modifier |-> Rat(1, 1), fov_degrees |-> Rat(90, 1)],
     terrain_params |-> [f1_octaves |-> 7, f2_octaves |-> 7, f3_octaves |-> 7]]

\* create_buffer_init contents of the two parameter buffers.
init_buffers(p) ==
    [ray_params |->
        <<p.ray_params.epsilon, p.ray_params.max_dist, p.ray_params.max_steps>>,
     view_params |->
        <<p.view_params.x_shift, p.view_params.y_shift, p.view_params.zoom,
          p.view_params.x_rot, p.view_params.y_rot,
          p.view_params.time_modifier, p.view_params.fov_degrees>>]

\* std::mem::size_of of the types the buffers and layouts are sized from.
size_of(t) ==
    LET f32 == 4
    IN  CASE t = "f32" -> f32
          [] t = "TimeUniform" -> 1 * f32
          [] t = "RayParams" -> 3 * f32
          [] t = "ViewParams" -> 7 * f32
          [] t = "[f32; 4]" -> 4 * f32
          [] t = "[[f32; 4]; 512]" -> 512 * (4 * f32)

\* The sizes of the buffers init_buffers creates: the parameter buffers take
\* the size of their create_buffer_init contents, the others a `size` field.
init_buffers_size(p) ==
    [time_uniform |-> size_of("f32"),
     ray_params |-> Len(init_buffers(p).ray_params) * size_of("f32"),
     view_params |-> Len(init_buffers(p).view_params) * size_of("f32"),
     generic_debug |-> size_of("[f32; 4]"),
     cpu_read_generic_debug |-> size_of("[f32; 4]"),
     debug_array1 |-> size_of("[[f32; 4]; 512]"),
     cpu_read_debug_array1 |-> size_of("[[f32; 4]; 512]"),
     debug_array2 |-> size_of("[[f32; 4]; 512]"),
     cpu_read_debug_array2 |-> size_of("[[f32; 4]; 512]")]

\* One BindGroupLayoutEntry: the binding type and min_binding_size (0 for None
\* and for the bindings that are not buffers).
LayoutEntry(ty, min_binding_size) ==
    [ty |-> ty, min_binding_size |-> min_binding_size]

\* struct BindGroups: each layout maps its binding slots to their entries, each
\* bind group names the layout it was created against and maps the slots of
\* its entries to the resources bound there.
init_bind_groups ==
    [uniform_bgl |-> (0 :> LayoutEntry("Uniform", size_of("TimeUniform"))),
     uniform_bg |->
        [layout |-> "uniform_bgl", entries |-> (0 :> "time_uniform")],
     frag_bgl |->
        (0 :> LayoutEntry("Storage", size_of("RayParams"))) @@
        (1 :> LayoutEntry("Storage", size_of("ViewParams"))) @@
        (7 :> LayoutEntry("Storage", size_of("[[f32; 4]; 512]"))) @@
        (8 :> LayoutEntry("Storage", size_of("[[f32; 4]; 512]"))) @@
        (9 :> LayoutEntry("Storage", size_of("[f32; 4]"))),
     frag_bg |->
        [layout |-> "frag_bgl",
         entries |-> (0 :> "ray_params") @@ (1 :> "view_params") @@
                     (7 :> "debug_array1") @@ (8 :> "debug_array2") @@
                     (9 :> "generic_debug")],
     compute_bgl |->
        (7 :> LayoutEntry("Storage", size_of("[[f32; 4]; 512]"))) @@
        (8 :> LayoutEntry("Storage", size_of("[[f32; 4]; 512]"))) @@
        (9 :> LayoutEntry("Storage", size_of("[f32; 4]"))),
     compute_bg |->
        [layout |-> "compute_bgl",
         entries |-> (7 :> "debug_array1") @@ (8 :> "debug_array2") @@
                     (9 :> "generic_debug")],
     texture_bgl |-> (0 :> LayoutEntry("StorageTexture", 0)),
     texture_bg |->
        [layout |-> "texture_bgl", entries |-> (0 :> "terrain_view")],
     sampled_texture_bgl |->
        (0 :> LayoutEntry("Texture", 0)) @@ (1 :> LayoutEntry("Sampler", 0)),
     sampled_texture_bg |->
        [layout |-> "sampled_texture_bgl",
         entries |-> (0 :> "terrain_view") @@ (1 :> "terrain_sampler")]]

\* The render pipeline layout with the second and third layouts exchanged.
init_pipelines_layouts_exchanged ==
    [render |-> <<"uniform_bgl", "sampled_texture_bgl", "frag_bgl">>,
     generate_terrain |-> <<"uniform_bgl", "compute_bgl", "texture_bgl">>]

\* struct Pipelines: the bind_group_layouts of the pipeline layout each
\* pipeline was created with.
init_pipelines ==
    [render |-> <<"uniform_bgl", "frag_bgl", "sampled_texture_bgl">>,
     generate_terrain |-> <<"uniform_bgl", "compute_bgl", "texture_bgl">>]

\* bytemuck::cast_slice(&[RayParams]): the fields in #[repr(C)] declaration order.
RayParamsBytes(r) == <<r.epsilon, r.max_dist, r.max_steps>>

\* bytemuck::cast_slice(&[ViewParams]): the fields in #[repr(C)] declaration order.
ViewParamsBytes(v) ==
    <<v.x_shift, v.y_shift, v.zoom, v.x_rot, v.y_rot, v.time_modifier, v.fov_degrees>>

\* ---------------------------------------------------- parameter updates
update_view_params_buffer(s) ==
    LET new_view_params ==
            [x_shift |-> s.params.view_params.x_shift,
             y_shift |-> s.params.view_params.y_shift,
             zoom |-> s.params.view_params.zoom,
             x_rot |-> s.params.view_params.x_rot,
             y_rot |-> s.params.view_params.y_rot,
             time_modifier |-> s.params.view_params.time_modifier,
             fov_degrees |-> s.params.view_params.fov_degrees]
        bytes == ViewParamsBytes(new_view_params)
    IN  [Write(Log(s, <<Op("write_buffer", "view_params", "")>>),
               "view_params", 0, Len(bytes) * size_of("f32"))
            EXCEPT !.buffers.view_params = bytes]

update_ray_params_buffer(s) ==
    LET new_ray_params ==
            [epsilon |-> s.params.ray_params.epsilon,
             max_dist |-> s.params.ray_params.max_dist,
             max_steps |-> s.params.ray_params.max_steps]
        bytes == RayParamsBytes(new_ray_params)
    IN  [Write(Log(s, <<Op("write_buffer", "ray_params", "")>>),
               "ray_params", 0, Len(bytes) * size_of("f32"))
            EXCEPT !.buffers.ray_params = bytes]

\* update_cpu_read_buffers copying one debug record from each debug array.
update_cpu_read_buffers_one_record(s) ==
    LET s1 == Copy(s, "generic_debug", 0, "cpu_read_generic_debug", 0,
                   size_of("[f32; 4]"))
        s2 == Copy(s1, "debug_array1", 0, "cpu_read_debug_array1", 0,
                   size_of("[f32; 4]"))
        s3 == Copy(s2, "debug_array2", 0, "cpu_read_debug_array2", 0,
                   size_of("[f32; 4]"))
    IN  [Log(s3, <<Op("copy_buffer_to_buffer", "cpu_read_generic_debug", "generic_debug"),
                   Op("copy_buffer_to_buffer", "cpu_read_debug_array1", "debug_array1"),
                   Op("copy_buffer_to_buffer", "cpu_read_debug_array2", "debug_array2"),
                   Op("submit", "queue", "update_cpu_read_buffers")>>)
            EXCEPT !.mapped_at_copy = s.mapped,
                   !.copied = @ \cup ShadowBuffers]

\* Three device-to-shadow copies in one command buffer, then one submit.
update_cpu_read_buffers(s) ==
    LET s1 == Copy(s, "generic_debug", 0, "cpu_read_generic_debug", 0,
                   size_of("[f32; 4]"))
        s2 == Copy(s1, "debug_array1", 0, "cpu_read_debug_array1", 0,
                   size_of("[[f32; 4]; 512]"))
        s3 == Copy(s2, "debug_array2", 0, "cpu_read_debug_array2", 0,
                   size_of("[[f32; 4]; 512]"))
    IN  [Log(s3, <<Op("copy_buffer_to_buffer", "cpu_read_generic_debug", "generic_debug"),
                   Op("copy_buffer_to_buffer", "cpu_read_debug_array1", "debug_array1"),
                   Op("copy_buffer_to_buffer", "cpu_read_debug_array2", "debug_array2"),
                   Op("submit", "queue", "update_cpu_read_buffers")>>)
            EXCEPT !.mapped_at_copy = s.mapped,
                   !.copied = @ \cup ShadowBuffers]

\* ------------------------------------------------------- debug readback
\* buffer_slice.map_async(Read, callback): the request; the callback has not run.
map_async(s, buffer) == Log(s, <<Op("map_async", buffer, "Read")>>)

\* device_poll that returns without the callback having run: nothing is sent.
device_poll_callback_not_run(s, buffer, result) ==
    [Log(s, <<Op("poll", "device", "Wait")>>)
        EXCEPT !.mapped = IF result = "Ok" THEN @ \cup {buffer} ELSE @]

\* device.poll(Maintain::Wait): the pending map request of `buffer` completes with
\* `result`, the callback sends it on the oneshot channel; on success the buffer
\* is mapped from here on.
device_poll(s, buffer, result) ==
    [Log(s, <<Op("poll", "device", "Wait"), Op("send", buffer, result)>>)
        EXCEPT !.mapped = IF result = "Ok" THEN @ \cup {buffer} ELSE @]

\* futures::executor::block_on(rx)
block_on(s, buffer, result) == Log(s, <<Op("block_on", buffer, result)>>)

\* drop(buf_view); buffer.unmap()
unmap(s, buffer) ==
    [Log(s, <<Op("unmap", buffer, "")>>) EXCEPT !.mapped = @ \ {buffer}]

\* buffer_slice.get_mapped_range(): the f32 values of the whole buffer.  A
\* buffer created without contents is zero-filled and the host never writes a
\* debug buffer or its shadow.
get_mapped_range(sizes, buffer) ==
    [i \in 1..(sizes[buffer] \div size_of("f32")) |-> Zero]

\* bytemuck::cast_slice::<u8, T>(&buf_view): the values grouped into elements of
\* type T, a debug record [f32; 4] or an array of 512 of them.
cast_slice(data, T) ==
    LET per == size_of(T) \div size_of("f32")
        rec == size_of("[f32; 4]") \div size_of("f32")
    IN  [i \in 1..(Len(data) \div per) |->
            IF T = "[f32; 4]"
            THEN SubSeq(data, (i - 1) * per + 1, i * per)
            ELSE [r \in 1..(per \div rec) |->
                     SubSeq(data, (i - 1) * per + (r - 1) * rec + 1,
                            (i - 1) * per + r * rec)]]

\* for (i, obj) in data.iter().enumerate() { println!("{label} {i}:\n{obj:?}") }:
\* the entries printed, each an index and an element.
print_each(data) == [i \in 1..Len(data) |-> [idx |-> i - 1, obj |-> data[i]]]

\* for i in data.into_iter() { flattened.extend(i.to_owned()) }
RECURSIVE flatten(_)
flatten(data) == IF data = <<>> THEN <<>> ELSE Head(data) \o flatten(Tail(data))

\* for (idx, item) in flattened1.iter().zip(flattened2.iter()).enumerate():
\* the entries printed, each an index and one item of each buffer.
print_zipped(flattened1, flattened2) ==
    LET n == IF Len(flattened1) <= Len(flattened2)
             THEN Len(flattened1) ELSE Len(flattened2)
    IN  [i \in 1..n |-> [idx |-> i - 1, obj |-> <<flattened1[i], flattened2[i]>>]]

\* The handler runs the print loop `loop` over the mapped ranges of `bufs` read
\* as slices of T.
print_loop(s, loop, bufs, T) ==
    [s EXCEPT !.printed = [loop |-> loop, buffers |-> bufs, T |-> T]]

\* print_gpu_data reading the mapped range right after the request, before the
\* device wait and the completion signal.
print_gpu_data_read_before_wait(s, buffer, T, result) ==
    LET s1 == map_async(s, buffer)
        s2 == Log(s1, <<Op("println", buffer, "buffer size"),
                        Op("get_mapped_range", buffer, "")>>)
        s3 == device_poll(s2, buffer, result)
        s4 == block_on(s3, buffer, result)
    IN  IF result = "Ok"
        THEN unmap(Log(print_loop(s4, "print_each", <<buffer>>, T),
                       <<Op("println", buffer, "records"),
                         Op("drop", buffer, "buf_view")>>), buffer)
        ELSE Log(s4, <<Op("eprintln", buffer, "Error retrieving gpu data")>>)

print_gpu_data(s, buffer, T, result) ==
    LET s1 == map_async(s, buffer)
        s2 == Log(s1, <<Op("println", buffer, "buffer size")>>)
        s3 == device_poll(s2, buffer, result)
        s4 == block_on(s3, buffer, result)
    IN  IF result = "Ok"
        THEN unmap(Log(print_loop(s4, "print_each", <<buffer>>, T),
                       <<Op("get_mapped_range", buffer, ""),
                         Op("println", buffer, "records"),
                         Op("drop", buffer, "buf_view")>>), buffer)
        ELSE Log(s4, <<Op("eprintln", buffer, "Error retrieving gpu data")>>)

\* print_gpu_interleave_two_buffers issuing both map requests before it waits
\* for either.
print_gpu_interleave_concurrent(s, buffer1, buffer2, T, result1, result2) ==
    LET s1 == map_async(map_async(s, buffer1), buffer2)
        s2 == block_on(block_on(device_poll(device_poll(s1, buffer1, result1),
                                            buffer2, result2),
                                buffer1, result1), buffer2, result2)
    IN  CASE result1 = "Ok" /\ result2 = "Ok" ->
                unmap(unmap(Log(print_loop(s2, "print_zipped", <<buffer1, buffer2>>, T),
                                <<Op("get_mapped_range", buffer1, ""),
                                  Op("get_mapped_range", buffer2, ""),
                                  Op("println", buffer1, "paired records"),
                                  Op("drop", buffer1, "buf_view1"),
                                  Op("drop", buffer2, "buf_view2")>>),
                            buffer1), buffer2)
          [] result1 = "Err" /\ result2 = "Ok" ->
                Log(s2, <<Op("eprintln", buffer1, "Error retrieving gpu data")>>)
          [] result1 = "Ok" /\ result2 = "Err" ->
                Log(s2, <<Op("eprintln", buffer2, "Error retrieving gpu data")>>)
          [] OTHER ->
                Log(s2, <<Op("eprintln", buffer1, "Error retrieving gpu data"),
                          Op("eprintln", buffer2, "Error retrieving gpu data")>>)

print_gpu_interleave_two_buffers(s, buffer1, buffer2, T, result1, result2) ==
    LET s1 == block_on(device_poll(map_async(s, buffer1), buffer1, result1),
                       buffer1, result1)
        s2 == block_on(device_poll(map_async(s1, buffer2), buffer2, result2),
                       buffer2, result2)
    IN  CASE result1 = "Ok" /\ result2 = "Ok" ->
                unmap(unmap(Log(print_loop(s2, "print_zipped", <<buffer1, buffer2>>, T),
                                <<Op("get_mapped_range", buffer1, ""),
                                  Op("get_mapped_range", buffer2, ""),
                                  Op("println", buffer1, "paired records"),
                                  Op("drop", buffer1, "buf_view1"),
                                  Op("drop", buffer2, "buf_view2")>>),
                            buffer1), buffer2)
          [] result1 = "Err" /\ result2 = "Ok" ->
                Log(s2, <<Op("eprintln", buffer1, "Error retrieving gpu data")>>)
          [] result1 = "Ok" /\ result2 = "Err" ->
                Log(s2, <<Op("eprintln", buffer2, "Error retrieving gpu data")>>)
          [] OTHER ->
                Log(s2, <<Op("eprintln", buffer1, "Error retrieving gpu data"),
                          Op("eprintln", buffer2, "Error retrieving gpu data")>>)

\* ------------------------------------------------- keyboard controller
key_pressed(s, key) == key \in s.keys

set_mode(s, new_mode) == [s EXCEPT !.mode = new_mode]

\* after_readback that leaves the mode as it is.
after_readback_mode_kept(s) == Log(s, <<Op("sleep", "thread", "50ms")>>)

\* thread::sleep(50 ms); state.controls.set_mode(VIEW)
after_readback(s) == set_mode(Log(s, <<Op("sleep", "thread", "50ms")>>), "VIEW")

debug_controls(s, result1, result2) ==
    LET pressed == s.keys
    IN  IF "KeyS" \in pressed
        THEN after_readback(
                 print_gpu_data(s, "cpu_read_generic_debug", "[f32; 4]", result1))
        ELSE IF "Digit1" \in pressed
        THEN after_readback(
                 print_gpu_data(s, "cpu_read_debug_array1", "[[f32; 4]; 512]", result1))
        ELSE IF "Digit2" \in pressed
        THEN after_readback(
                 print_gpu_data(s, "cpu_read_debug_array2", "[[f32; 4]; 512]", result1))
        ELSE IF "Digit3" \in pressed
        THEN after_readback(print_gpu_interleave_two_buffers(
                 s, "cpu_read_debug_array1", "cpu_read_debug_array2",
                 "[[f32; 4]; 512]", result1, result2))
        ELSE s

\* The signed delta of ray_controls and terrain_controls.
dval_f(pressed) ==
    IF "ArrowUp" \in pressed THEN Rat(1, 1)
    ELSE IF "ArrowDown" \in pressed THEN Rat(-1, 1)
    ELSE Zero

\* ray_step without the clamp.
ray_step_unclamped(maxv, d) == RAdd(maxv, RMul(Rat(1, 1), d))

\* *maxv = f32::max(0f32, *maxv + (1.0 * dval_f))
ray_step(maxv, d) == RMax(Zero, RAdd(maxv, RMul(Rat(1, 1), d)))

\* ray_controls whose KeyW branch forgets update_ray_params_buffer.
ray_controls_max_dist_unsynced(s) ==
    LET pressed == s.keys
        d == dval_f(pressed)
    IN  IF "KeyE" \in pressed
        THEN update_ray_params_buffer(
                 [s EXCEPT !.params.ray_params.epsilon = ray_step(@, d), !.ticked = TRUE])
        ELSE IF "KeyS" \in pressed
        THEN update_ray_params_buffer(
                 [s EXCEPT !.params.ray_params.max_steps = ray_step(@, d), !.ticked = TRUE])
        ELSE IF "KeyW" \in pressed
        THEN [s EXCEPT !.params.ray_params.max_dist = ray_step(@, d), !.ticked = TRUE]
        ELSE s

ray_controls(s) ==
    LET pressed == s.keys
        d == dval_f(pressed)
    IN  IF "KeyE" \in pressed
        THEN update_ray_params_buffer(
                 [s EXCEPT !.params.ray_params.epsilon = ray_step(@, d), !.ticked = TRUE])
        ELSE IF "KeyS" \in pressed
        THEN update_ray_params_buffer(
                 [s EXCEPT !.params.ray_params.max_steps = ray_step(@, d), !.ticked = TRUE])
        ELSE IF "KeyW" \in pressed
        THEN update_ray_params_buffer(
                 [s EXCEPT !.params.ray_params.max_dist = ray_step(@, d), !.ticked = TRUE])
        ELSE s

\* terrain_controls that raises the first octave count by one.
terrain_controls_octaves_stepped(s) ==
    [Log(s, <<Op("println", "stdout", "terrain controls not done yet")>>)
        EXCEPT !.params.terrain_params.f1_octaves = @ + 1]

\* terrain_controls that also puts the zoom back to 1.0.
terrain_controls_zoom_reset(s) ==
    [Log(s, <<Op("println", "stdout", "terrain controls not done yet")>>)
        EXCEPT !.params.view_params.zoom = Rat(1, 1)]

terrain_controls(s) == Log(s, <<Op("println", "stdout", "terrain controls not done yet")>>)

\* rot_increase without the clamp.
rot_increase_unclamped(rot) == RAdd(rot, Rat(1, 10))

\* x_rot / y_rot in the increasing direction: f32::max(0.0, rot + 0.1)
rot_increase(rot) == RMax(Zero, RAdd(rot, Rat(1, 10)))

\* x_rot / y_rot in the decreasing direction: rot -= 0.1
rot_decrease(rot) == RSub(rot, Rat(1, 10))

\* pan_step that ignores the zoom.
pan_step_zoom_ignored(mz) == Rat(1, 100)

\* The pan of one tick: 0.01 / mz
pan_step(mz) == RDiv(Rat(1, 100), mz)

\* zoom_step with the factor 1.0 in place of 0.1.
zoom_step_whole(mz) == RMul(Rat(1, 1), mz)

\* The zoom change of one tick: 0.1 * mz
zoom_step(mz) == RMul(Rat(1, 10), mz)

\* view_controls whose zoom branches are a chain of their own, run after the
\* arrow chain.
view_controls_zoom_unchained(s) ==
    LET pressed == s.keys
        mz == s.params.view_params.zoom
        shift == "ShiftLeft" \in pressed
        pan == pan_step(mz)
        t == [s EXCEPT !.ticked = TRUE]
        a == IF "ArrowLeft" \in pressed
             THEN IF shift
                  THEN update_view_params_buffer(
                           [t EXCEPT !.params.view_params.x_rot = rot_increase(@)])
                  ELSE update_view_params_buffer(
                           [t EXCEPT !.params.view_params.x_shift = RSub(@, pan)])
             ELSE IF "ArrowRight" \in pressed
             THEN IF shift
                  THEN update_view_params_buffer(
                           [t EXCEPT !.params.view_params.x_rot = rot_decrease(@)])
                  ELSE update_view_params_buffer(
                           [t EXCEPT !.params.view_params.x_shift = RAdd(@, pan)])
             ELSE IF "ArrowUp" \in pressed
             THEN IF shift
                  THEN update_view_params_buffer(
                           [t EXCEPT !.params.view_params.y_rot = rot_increase(@)])
                  ELSE update_view_params_buffer(
                           [t EXCEPT !.params.view_params.y_shift = RSub(@, pan)])
             ELSE IF "ArrowDown" \in pressed
             THEN IF shift
                  THEN update_view_params_buffer(
                           [t EXCEPT !.params.view_params.y_rot = rot_decrease(@)])
                  ELSE update_view_params_buffer(
                           [t EXCEPT !.params.view_params.y_shift = RAdd(@, pan)])
             ELSE s
    IN  IF "KeyX" \in pressed
        THEN update_view_params_buffer(
                 [a EXCEPT !.params.view_params.zoom = RSub(@, zoom_step(mz)),
                           !.ticked = TRUE])
        ELSE IF "KeyZ" \in pressed
        THEN update_view_params_buffer(
                 [a EXCEPT !.params.view_params.zoom = RAdd(@, zoom_step(mz)),
                           !.ticked = TRUE])
        ELSE a

view_controls(s) ==
    LET pressed == s.keys
        mz == s.params.view_params.zoom
        shift == "ShiftLeft" \in pressed
        pan == pan_step(mz)
        t == [s EXCEPT !.ticked = TRUE]
    IN  IF "ArrowLeft" \in pressed
        THEN IF shift
             THEN update_view_params_buffer(
                      [t EXCEPT !.params.view_params.x_rot = rot_increase(@)])
             ELSE update_view_params_buffer(
                      [t EXCEPT !.params.view_params.x_shift = RSub(@, pan)])
        ELSE IF "ArrowRight" \in pressed
        THEN IF shift
             THEN update_view_params_buffer(
                      [t EXCEPT !.params.view_params.x_rot = rot_decrease(@)])
             ELSE update_view_params_buffer(
                      [t EXCEPT !.params.view_params.x_shift = RAdd(@, pan)])
        ELSE IF "ArrowUp" \in pressed
        THEN IF shift
             THEN update_view_params_buffer(
                      [t EXCEPT !.params.view_params.y_rot = rot_increase(@)])
             ELSE update_view_params_buffer(
                      [t EXCEPT !.params.view_params.y_shift = RSub(@, pan)])
        ELSE IF "ArrowDown" \in pressed
        THEN IF shift
             THEN update_view_params_buffer(
                      [t EXCEPT !.params.view_params.y_rot = rot_decrease(@)])
             ELSE update_view_params_buffer(
                      [t EXCEPT !.params.view_params.y_shift = RAdd(@, pan)])
        ELSE IF "KeyX" \in pressed
        THEN update_view_params_buffer(
                 [t EXCEPT !.params.view_params.zoom = RSub(@, zoom_step(mz))])
        ELSE IF "KeyZ" \in pressed
        THEN update_view_params_buffer(
                 [t EXCEPT !.params.view_params.zoom = RAdd(@, zoom_step(mz))])
        ELSE s

\* print_controls that leaves the mode as it is.
print_controls_mode_kept(s) ==
    Log(s, <<Op("println", "stdout", "terrain_params"),
             Op("println", "stdout", "view_params"),
             Op("println", "stdout", "ray_params")>>)

print_controls(s) ==
    set_mode(Log(s, <<Op("println", "stdout", "terrain_params"),
                      Op("println", "stdout", "view_params"),
                      Op("println", "stdout", "ray_params")>>), "VIEW")

\* select_mode with the Digit3 test moved in front of the Digit2 test.
select_mode_digit3_first(s) ==
    IF key_pressed(s, "KeyD") THEN set_mode(s, "DEBUG")
    ELSE IF key_pressed(s, "Digit1") THEN set_mode(s, "TERRAIN")
    ELSE IF key_pressed(s, "Digit3") THEN set_mode(s, "RAY")
    ELSE IF key_pressed(s, "Digit2") THEN set_mode(s, "VIEW")
    ELSE IF key_pressed(s, "KeyP") THEN set_mode(s, "PRINT")
    ELSE s

\* select_mode that leaves DEBUG only when no key of debug_controls is held.
select_mode_debug_keys_first(s) ==
    IF s.mode = "DEBUG" /\ s.keys \cap {"KeyS", "Digit1", "Digit2", "Digit3"} # {}
    THEN s
    ELSE IF key_pressed(s, "KeyD") THEN set_mode(s, "DEBUG")
    ELSE IF key_pressed(s, "Digit1") THEN set_mode(s, "TERRAIN")
    ELSE IF key_pressed(s, "Digit2") THEN set_mode(s, "VIEW")
    ELSE IF key_pressed(s, "Digit3") THEN set_mode(s, "RAY")
    ELSE IF key_pressed(s, "KeyP") THEN set_mode(s, "PRINT")
    ELSE s

\* The transition step of update_controls: the if / else-if chain over the
\* mode-select keys.
select_mode(s) ==
    IF key_pressed(s, "KeyD") THEN set_mode(s, "DEBUG")
    ELSE IF key_pressed(s, "Digit1") THEN set_mode(s, "TERRAIN")
    ELSE IF key_pressed(s, "Digit2") THEN set_mode(s, "VIEW")
    ELSE IF key_pressed(s, "Digit3") THEN set_mode(s, "RAY")
    ELSE IF key_pressed(s, "KeyP") THEN set_mode(s, "PRINT")
    ELSE s

\* dispatch that runs the VIEW handler too when the handler it ran has forced
\* the mode to VIEW.
dispatch_view_after_forced_view(s, result1, result2) ==
    LET h == Log(s, <<Op("handler", s.mode, "")>>)
        r == CASE s.mode = "DEBUG" -> debug_controls(h, result1, result2)
               [] s.mode = "VIEW" -> view_controls(h)
               [] s.mode = "TERRAIN" -> terrain_controls(h)
               [] s.mode = "RAY" -> ray_controls(h)
               [] s.mode = "PRINT" -> print_controls(h)
    IN  IF s.mode # "VIEW" /\ r.mode = "VIEW"
        THEN view_controls(Log(r, <<Op("handler", "VIEW", "")>>))
        ELSE r

\* The dispatch of update_controls: match state.controls.get_mode().
dispatch(s, result1, result2) ==
    LET h == Log(s, <<Op("handler", s.mode, "")>>)
    IN  CASE s.mode = "DEBUG" -> debug_controls(h, result1, result2)
          [] s.mode = "VIEW" -> view_controls(h)
          [] s.mode = "TERRAIN" -> terrain_controls(h)
          [] s.mode = "RAY" -> ray_controls(h)
          [] s.mode = "PRINT" -> print_controls(h)

update_controls(s, result1, result2) == dispatch(select_mode(s), result1, result2)

\* ----------------------------------------------------------- State
\* State::update writing View Parameters only from view_controls.
update_without_view_sync(s, result1, result2) ==
    update_cpu_read_buffers(update_controls(s, result1, result2))

\* State::update
update(s, result1, result2) ==
    update_cpu_read_buffers(
        update_view_params_buffer(update_controls(s, result1, result2)))

\* State::render recording, submitting and presenting whatever the acquisition
\* returned.
render_pass_unconditional(s, acquired) ==
    LET s1 == [Log(s, <<Op("get_current_texture", "surface", acquired)>>)
                  EXCEPT !.size_at_render =
                      [size |-> s.size, surface_config |-> s.surface_config,
                       pending_resize |-> s.pending_resize]]
    IN  Log(s1, <<Op("begin_render_pass", "encoder", "Clear(BLACK)"),
                  Op("set_pipeline", "render_pass", "render"),
                  Op("set_bind_group", "0", "uniform_bg"),
                  Op("set_bind_group", "1", "frag_bg"),
                  Op("set_bind_group", "2", "sampled_texture_bg"),
                  Op("set_vertex_buffer", "0", "vertex"),
                  Op("draw", ToString(NumVertices), "1"),
                  Op("submit", "queue", "Render Encoder"),
                  Op("present", "output", "")>>)

\* State::render; `acquired` is the result of surface.get_current_texture().
render(s, acquired) ==
    LET s1 == [Log(s, <<Op("get_current_texture", "surface", acquired)>>)
                  EXCEPT !.size_at_render =
                      [size |-> s.size, surface_config |-> s.surface_config,
                       pending_resize |-> s.pending_resize]]
    IN  IF acquired = "Ok"
        THEN Log(s1, <<Op("begin_render_pass", "encoder", "Clear(BLACK)"),
                       Op("set_pipeline", "render_pass", "render"),
                       Op("set_bind_group", "0", "uniform_bg"),
                       Op("set_bind_group", "1", "frag_bg"),
                       Op("set_bind_group", "2", "sampled_texture_bg"),
                       Op("set_vertex_buffer", "0", "vertex"),
                       Op("draw", ToString(NumVertices), "1"),
                       Op("submit", "queue", "Render Encoder"),
                       Op("present", "output", "")>>)
        ELSE s1

\* State::resize without the guard on zero dimensions.
resize_unguarded(s, new_size) ==
    [Log(s, <<Op("configure", "surface", "")>>)
        EXCEPT !.size = new_size,
               !.surface_config = [width |-> new_size.width,
                                   height |-> new_size.height]]

\* State::resize that caches the new size and reconfigures the surface with the
\* configuration it had.
resize_size_only(s, new_size) ==
    IF new_size.width > 0 /\ new_size.height > 0
    THEN [Log(s, <<Op("configure", "surface", "")>>) EXCEPT !.size = new_size]
    ELSE s

\* State::resize
resize(s, new_size) ==
    IF new_size.width > 0 /\ new_size.height > 0
    THEN [Log(s, <<Op("configure", "surface", "")>>)
             EXCEPT !.size = new_size,
                    !.surface_config = [width |-> new_size.width,
                                        height |-> new_size.height]]
    ELSE s

\* ------------------------------------------------------ the event loop
\* KeyboardState::handle_keyboard_input
\* handle_keyboard_input that switches the mode as soon as a key goes down.
handle_keyboard_input_selects_mode(s, key, pressed) ==
    IF pressed
    THEN select_mode([s EXCEPT !.keys = @ \cup {key}])
    ELSE [s EXCEPT !.keys = @ \ {key}]

handle_keyboard_input(s, key, pressed) ==
    IF pressed
    THEN [s EXCEPT !.keys = @ \cup {key}]
    ELSE [s EXCEPT !.keys = @ \ {key}]

\* clear_keys that leaves the held keys as they are.
clear_keys_nothing_cleared(s) == s

\* KeyboardState::clear_keys
clear_keys(s) == [s EXCEPT !.keys = {}]

\* elwt.exit()
exit(s) == [Log(s, <<Op("exit", "elwt", "")>>) EXCEPT !.exiting = TRUE]

\* on_render_result without the Lost arm: Lost is handled like Outdated.
on_render_result_lost_unhandled(s, acquired) ==
    CASE acquired = "Ok" -> s
      [] acquired = "OutOfMemory" -> exit(s)
      [] OTHER -> Log(s, <<Op("eprintln", "stderr", acquired)>>)

\* on_render_result that renders once more, in the same frame, after the
\* reconfigure of the Lost arm.
on_render_result_retry_after_lost(s, acquired) ==
    CASE acquired = "Ok" -> s
      [] acquired = "Lost" -> render(resize(s, s.size), "Ok")
      [] acquired = "OutOfMemory" -> exit(s)
      [] OTHER -> Log(s, <<Op("eprintln", "stderr", acquired)>>)

\* The match on state.render() in the RedrawRequested arm.
on_render_result(s, acquired) ==
    CASE acquired = "Ok" -> s
      [] acquired = "Lost" -> resize(s, s.size)
      [] acquired = "OutOfMemory" -> exit(s)
      [] OTHER -> Log(s, <<Op("eprintln", "stderr", acquired)>>)

\* state.window.request_redraw()
request_redraw(s) ==
    [Log(s, <<Op("request_redraw", "window", "")>>) EXCEPT !.redraw_requested = TRUE]

\* The RedrawRequested arm rendering first and running State::update only
\* when the frame was presented.
on_redraw_requested_update_after_present(s, result1, result2, acquired) ==
    LET s0 == [s EXCEPT !.redraw_requested = FALSE]
        s1 == Write(Log(s0, <<Op("write_buffer", "time_uniform", "")>>),
                    "time_uniform", 0, size_of("f32"))
        s2 == [render(s1, acquired) EXCEPT !.pending_resize = NoResize]
        s3 == IF acquired = "Ok" THEN update(s2, result1, result2) ELSE s2
        s4 == on_render_result(s3, acquired)
    IN  request_redraw(s4)

\* The RedrawRequested arm asking for the next redraw only after a frame that
\* was presented.
on_redraw_requested_next_only_after_present(s, result1, result2, acquired) ==
    LET s0 == [s EXCEPT !.redraw_requested = FALSE]
        s1 == Write(Log(s0, <<Op("write_buffer", "time_uniform", "")>>),
                    "time_uniform", 0, size_of("f32"))
        s2 == update(s1, result1, result2)
        s3 == [render(s2, acquired) EXCEPT !.pending_resize = NoResize]
        s4 == on_render_result(s3, acquired)
    IN  IF acquired = "Ok" THEN request_redraw(s4) ELSE s4

\* WindowEvent::RedrawRequested: the window source has delivered the redraw that
\* was requested.
on_redraw_requested(s, result1, result2, acquired) ==
    LET s0 == [s EXCEPT !.redraw_requested = FALSE]
        s1 == Write(Log(s0, <<Op("write_buffer", "time_uniform", "")>>),
                    "time_uniform", 0, size_of("f32"))
        s2 == update(s1, result1, result2)
        s3 == [render(s2, acquired) EXCEPT !.pending_resize = NoResize]
        s4 == on_render_result(s3, acquired)
    IN  request_redraw(s4)

\* WindowEvent::KeyboardInput
on_keyboard_input(s, key, pressed) == handle_keyboard_input(s, key, pressed)

\* WindowEvent::Focused
on_focused(s, focused) ==
    IF ~focused
    THEN Log(clear_keys(s), <<Op("println", "stdout", "Window lost focus, cleared keys.")>>)
    ELSE s

\* WindowEvent::CloseRequested
on_close_requested(s) == exit(s)

\* WindowEvent::Resized falls into the `_ => {}` arm of the closure.  The window
\* source remembers what it delivered (pending_resize is not program state).
on_resized(s, new_size) ==
    IF new_size.width > 0 /\ new_size.height > 0
    THEN [s EXCEPT !.pending_resize = new_size]
    ELSE s

\* The variables take the values of the record a handler returns.
Commit(s) ==
    /\ keys' = s.keys
    /\ mode' = s.mode
    /\ params' = s.params
    /\ buffers' = s.buffers
    /\ mapped' = s.mapped
    /\ size' = s.size
    /\ surface_config' = s.surface_config
    /\ exiting' = s.exiting
    /\ trace' = s.trace
    /\ mapped_at_copy' = s.mapped_at_copy
    /\ pending_resize' = s.pending_resize
    /\ size_at_render' = s.size_at_render
    /\ nticks' = nticks + (IF s.ticked THEN 1 ELSE 0)
    /\ copied' = s.copied
    /\ redraw_requested' = s.redraw_requested
    /\ frames' = s.frames
    /\ buffer_size' = s.buffer_size
    /\ bind_groups' = s.bind_groups
    /\ pipelines' = s.pipelines
    /\ transfers' = s.transfers
    /\ printed' = s.printed

\* The state after State::new, or a later state between two events in which
\* the keys in `held` are held: the parameter blocks are p, the parameter buffers hold what was last written to
\* them (the serialized blocks), the mode is m, and c are the shadow buffers
\* refreshed so far.  A redraw is due: the one the window source emits for a
\* new window, or the one the last frame requested.
HeldStateAt(p, m, c, held) ==
    /\ keys = held
    /\ mode = m
    /\ params = p
    /\ buffers = init_buffers(p)
    /\ mapped = {}
    /\ size = [width |-> SCREEN_WIDTH, height |-> SCREEN_HEIGHT]
    /\ surface_config = [width |-> SCREEN_WIDTH, height |-> SCREEN_HEIGHT]
    /\ exiting = FALSE
    /\ trace = <<>>
    /\ mapped_at_copy = {}
    /\ pending_resize = NoResize
    /\ size_at_render =
          [size |-> [width |-> SCREEN_WIDTH, height |-> SCREEN_HEIGHT],
           surface_config |-> [width |-> SCREEN_WIDTH, height |-> SCREEN_HEIGHT],
           pending_resize |-> NoResize]
    /\ nticks = 0
    /\ copied = c
    /\ redraw_requested = TRUE
    /\ frames = 0
    /\ buffer_size = init_buffers_size(p)
    /\ bind_groups = init_bind_groups
    /\ pipelines = init_pipelines
    /\ transfers = <<>>
    /\ printed = NoPrint

\* The same, with no key held.
StateAt(p, m, c) == HeldStateAt(p, m, c, {})

\* State::new: KeyboardState::new() and init_params().
Init == StateAt(init_params, "PRINT", {})

RedrawRequested ==
    /\ ~exiting
    /\ redraw_requested
    /\ \E result1 \in MapResults, result2 \in MapResults, acquired \in SurfaceResults :
          \E s \in {on_redraw_requested(Here, result1, result2, acquired)} :
              /\ nticks + (IF s.ticked THEN 1 ELSE 0) <= MaxTicks
              /\ Commit(s)

\* The window source delivers press / release events of the keys in K.
KeyboardInput(K) ==
    /\ ~exiting
    /\ \E key \in K, pressed \in BOOLEAN :
          \E s \in {on_keyboard_input(Here, key, pressed)} :
              /\ Cardinality(s.keys) <= MaxHeld
              /\ Commit(s)

Focused ==
    /\ ~exiting
    /\ \E focused \in BOOLEAN :
          \E s \in {on_focused(Here, focused)} : Commit(s)

CloseRequested ==
    /\ ~exiting
    /\ \E s \in {on_close_requested(Here)} : Commit(s)

Resized ==
    /\ ~exiting
    /\ \E w \in {0, OtherWidth}, h \in {0, OtherHeight} :
          \E s \in {on_resized(Here, [width |-> w, height |-> h])} : Commit(s)

\* The event loop with the keyboard events restricted to the keys in K.
EventLoop(K) ==
    \/ RedrawRequested
    \/ KeyboardInput(K)
    \/ Focused
    \/ CloseRequested
    \/ Resized

Next == EventLoop(Keys)

Spec == Init /\ [][Next]_vars

\* The mode-select keys and KeyS: every key debug_controls reads.
DebugKeys == ModeSelectKeys \cup {"KeyS"}
NextDebug == EventLoop(DebugKeys)
SpecDebug == Init /\ [][NextDebug]_vars

\* The keys ray_controls reads, with the select key of RAY.
RayKeys == {"Digit3", "KeyE", "KeyS", "KeyW", "ArrowUp", "ArrowDown"}
NextRay == EventLoop(RayKeys)

\* Ray Parameters the program reaches in RAY mode: max_dist after 1500 and
\* max_steps after 2500 polls with ArrowDown and KeyW, resp. KeyS, held.
RayLow == [epsilon |-> Rat(1, 100), max_dist |-> Zero, max_steps |-> Zero]

\* The initial state, or the state RayLow was reached in with every key released.
InitRay ==
    \/ Init
    \/ StateAt([init_params EXCEPT !.ray_params = RayLow], "RAY", ShadowBuffers)

SpecRay == InitRay /\ [][NextRay]_vars

\* The keys of the rotation branches of view_controls (the first poll leaves
\* PRINT for VIEW).
RotKeys == {"ShiftLeft", "ArrowLeft", "ArrowRight", "ArrowUp", "ArrowDown"}
NextRot == EventLoop(RotKeys)

\* View Parameters the program reaches in VIEW mode: two polls with ShiftLeft
\* and ArrowRight held, then two with ShiftLeft and ArrowDown held.
RotLow ==
    [init_params.view_params EXCEPT !.x_rot = Rat(-2, 10), !.y_rot = Rat(-2, 10)]

\* The initial state, or the state RotLow was reached in with every key released.
InitRot ==
    \/ Init
    \/ StateAt([init_params EXCEPT !.view_params = RotLow], "VIEW", ShadowBuffers)

SpecRot == InitRot /\ [][NextRot]_vars

\* The keys of the pan and zoom branches of view_controls (the first poll
\* leaves PRINT for VIEW).
ViewKeys == {"ArrowLeft", "ArrowRight", "ArrowUp", "ArrowDown", "KeyX", "KeyZ"}
NextView == EventLoop(ViewKeys)
SpecView == Init /\ [][NextView]_vars

\* The two zoom keys and the select keys of DEBUG, TERRAIN and RAY (the first
\* poll leaves PRINT for VIEW).
ZoomKeys == {"KeyX", "KeyZ", "KeyD", "Digit1", "Digit3"}
NextZoom == EventLoop(ZoomKeys)
SpecZoom == Init /\ [][NextZoom]_vars

\* The select keys of DEBUG and RAY: Digit3 held with KeyD triggers the
\* interleaved readback; no key of this set mutates a parameter.
LiveKeys == {"KeyD", "Digit3"}

\* RedrawRequested, counted: two frames in a row that perform the same
\* operations are still two frames.
RedrawCounted ==
    /\ ~exiting
    /\ redraw_requested
    /\ \E result1 \in MapResults, result2 \in MapResults, acquired \in SurfaceResults :
          \E s \in {on_redraw_requested(Here, result1, result2, acquired)} :
              /\ nticks + (IF s.ticked THEN 1 ELSE 0) <= MaxTicks
              /\ Commit([s EXCEPT !.frames = 1 - @])

NextLive ==
    \/ RedrawCounted
    \/ KeyboardInput(LiveKeys)
    \/ Focused
    \/ CloseRequested
    \/ Resized

\* A step that handles a frame: RedrawCounted is the only action that changes
\* the parity.
FrameHandled == frames' # frames

\* The window source eventually delivers a redraw that was requested: weak
\* fairness of RedrawCounted (WF_vars(RedrawCounted)), written with its
\* enabling condition, a redraw requested and no exit requested.
RedrawDelivery ==
    \/ []<>(~(redraw_requested /\ ~exiting))
    \/ []<><<FrameHandled>>_vars

SpecLive == Init /\ [][NextLive]_vars /\ RedrawDelivery

\* The keys the branches of view_controls and ray_controls read.
PollKeys ==
    {"ArrowLeft", "ArrowRight", "ArrowUp", "ArrowDown", "KeyX", "KeyZ",
     "ShiftLeft", "KeyE", "KeyS", "KeyW"}

\* A state between two events in which some of these keys are held, in any
\* mode; the mode is PRINT only before the first frame.
InitPoll ==
    \E m \in Modes, held \in SUBSET PollKeys :
        /\ Cardinality(held) <= MaxHeld
        /\ HeldStateAt(init_params, m,
                       IF m = "PRINT" THEN {} ELSE ShadowBuffers, held)

\* The event loop while the keyboard is left as it is.
NextPoll == RedrawRequested \/ Focused \/ CloseRequested \/ Resized
SpecPoll == InitPoll /\ [][NextPoll]_vars

\* Keys that change a parameter in VIEW (ArrowUp, ArrowDown, KeyX) or in RAY
\* (KeyW, KeyS with an arrow) or start a readback in DEBUG (KeyS).
AcquireKeys == {"ArrowUp", "ArrowDown", "KeyX", "KeyW", "KeyS"}

\* A state between two events in which some of these keys are held, in a mode
\* that reads them.
InitAcquire ==
    \E m \in {"VIEW", "RAY", "DEBUG"}, held \in SUBSET AcquireKeys :
        /\ Cardinality(held) <= MaxHeld
        /\ HeldStateAt(init_params, m, ShadowBuffers, held)

SpecAcquire == InitAcquire /\ [][NextPoll]_vars

\* State::resize called with any size its signature admits: a zero or non-zero
\* width and height, equal to or different from the current ones.
ResizeCall(w, h) ==
    /\ ~exiting
    /\ \E s \in {resize(Here, [width |-> w, height |-> h])} : Commit(s)

ResizeWidths == {0, OtherWidth, SCREEN_WIDTH}
ResizeHeights == {0, OtherHeight, SCREEN_HEIGHT}

ResizeKeys == {"KeyD", "KeyP"}
NextResize ==
    \/ EventLoop(ResizeKeys)
    \/ \E w \in ResizeWidths, h \in ResizeHeights : ResizeCall(w, h)

SpecResize == Init /\ [][NextResize]_vars

\* ------------------------------------------------- reading the trace
\* The last handled event was a RedrawRequested.
IsFrame == trace # <<>> /\ trace[1] = Op("write_buffer", "time_uniform", "")

\* The targets of the operation o in the trace, in order.
Targets(o) ==
    LET test(e) == e[1] = o
        sel == SelectSeq(trace, test)
    IN  [i \in DOMAIN sel |-> sel[i][2]]

\* The details of the operation o in the trace, in order.
Details(o) ==
    LET test(e) == e[1] = o
        sel == SelectSeq(trace, test)
    IN  [i \in DOMAIN sel |-> sel[i][3]]

\* How many times the operation o was applied to target in the trace.
Count(o, target) ==
    Cardinality({i \in DOMAIN trace : trace[i][1] = o /\ trace[i][2] = target})

\* The result of the surface acquisition of the frame.
Acquired == Details("get_current_texture")[1]


\* The handler dispatched by update_controls in the frame.
HandlerRun == Targets("handler")

\* The buffers whose mapping the frame requested, in request order.
MapRequests == Targets("map_async")

\* The buffers whose mapped range the frame read, in order.
MappedReads == Targets("get_mapped_range")

\* The results the completion channel delivered in the frame, in order.
MapOutcomes == Details("block_on")

\* --------------------------------------------------------------- claims

SelectPriority == <<"KeyD", "Digit1", "Digit2", "Digit3", "KeyP">>
SelectedBy ==
    [k \in ModeSelectKeys |->
        CASE k = "KeyD" -> "DEBUG"
          [] k = "Digit1" -> "TERRAIN"
          [] k = "Digit2" -> "VIEW"
          [] k = "Digit3" -> "RAY"
          [] k = "KeyP" -> "PRINT"]
HighestHeld(held) ==
    LET i == CHOOSE n \in 1..Len(SelectPriority) :
                 /\ SelectPriority[n] \in held
                 /\ \A m \in 1..(n - 1) : SelectPriority[m] \notin held
    IN  SelectedBy[SelectPriority[i]]

\* C3: in a poll with two or more mode-select keys held, update_controls
\* dispatches the handler of the mode of the highest-priority held select key
\* (DEBUG > TERRAIN > VIEW > RAY > PRINT), and no other handler, whatever the
\* mode was before.
C3_HighestPrioritySelectKeyWins ==
    (IsFrame /\ Cardinality(keys \cap ModeSelectKeys) >= 2)
        => HandlerRun = <<HighestHeld(keys)>>

\* A poll with Digit2, Digit3 and KeyP held dispatched VIEW.
C3_Witness ==
    /\ IsFrame
    /\ keys = {"Digit2", "Digit3", "KeyP"}
    /\ HandlerRun = <<"VIEW">>

\* C4: a failed surface acquisition is classified: Lost reconfigures the
\* surface once at the cached size, which stays what it was when the render
\* began, and does not request exit; OutOfMemory requests exit; Outdated and
\* Timeout are logged, reconfigure nothing and do not request exit.  Exit is
\* requested only by CloseRequested or by OutOfMemory.
C4_SurfaceErrorClassified ==
    /\ IsFrame =>
          /\ Acquired = "Lost" =>
                /\ Count("configure", "surface") = 1
                /\ size = size_at_render.size
                /\ surface_config = [width |-> size.width, height |-> size.height]
                /\ ~exiting
          /\ Acquired = "OutOfMemory" => exiting
          /\ Acquired \in {"Outdated", "Timeout"} =>
                /\ Count("eprintln", "stderr") = 1
                /\ Count("configure", "surface") = 0
                /\ ~exiting
          /\ Acquired = "Ok" => ~exiting /\ Count("configure", "surface") = 0
    /\ exiting =>
          \/ trace = <<Op("exit", "elwt", "")>>
          \/ IsFrame /\ Acquired = "OutOfMemory"

\* A frame whose acquisition failed with Lost reconfigured the surface.
C4_Witness ==
    /\ IsFrame
    /\ Acquired = "Lost"
    /\ Count("configure", "surface") = 1
    /\ ~exiting

\* C5: after the window source delivered Resized with both dimensions non-zero,
\* the next render begins with the cached size and the surface configuration
\* equal to the delivered dimensions.
C5_ResizeCompletesBeforeRender ==
    (IsFrame /\ size_at_render.pending_resize # NoResize) =>
        /\ size_at_render.size = size_at_render.pending_resize
        /\ size_at_render.surface_config = size_at_render.pending_resize

\* The keys whose branch of view_controls / ray_controls writes a field.
ViewEditKeys == {"ArrowLeft", "ArrowRight", "ArrowUp", "ArrowDown", "KeyX", "KeyZ"}
RayEditKeys == {"KeyE", "KeyS", "KeyW"}

\* C6 as stated: in every frame the buffer write is enqueued exactly once for
\* View Parameters and exactly once for Ray Parameters.
C6_EachSyncExactlyOncePerFrame ==
    IsFrame =>
        /\ Count("write_buffer", "view_params") = 1
        /\ Count("write_buffer", "ray_params") = 1

\* C6 as amended: in every frame the View Parameters write is enqueued once by
\* State::update whether or not the host copy changed, and once more when the
\* VIEW handler ran with one of its keys held; the Ray Parameters write is
\* enqueued once when the RAY handler ran with KeyE, KeyS or KeyW held, and
\* not at all otherwise.
C6_SyncsPerFrame ==
    IsFrame =>
        /\ Count("write_buffer", "view_params") =
              (IF HandlerRun = <<"VIEW">> /\ keys \cap ViewEditKeys # {} THEN 2 ELSE 1)
        /\ Count("write_buffer", "ray_params") =
              (IF HandlerRun = <<"RAY">> /\ keys \cap RayEditKeys # {} THEN 1 ELSE 0)

\* A VIEW poll with ArrowUp held wrote View Parameters twice, Ray Parameters never.
C6_Witness ==
    /\ IsFrame
    /\ HandlerRun = <<"VIEW">>
    /\ keys = {"ArrowUp"}
    /\ Count("write_buffer", "view_params") = 2
    /\ Count("write_buffer", "ray_params") = 0

\* C7: in every state between two events the GPU view-params and ray-params
\* buffers hold the fields of the host blocks, in the declaration order of
\* struct ViewParams and struct RayParams.
C7_GpuCopiesEqualHostBlocks ==
    /\ buffers.view_params =
          <<params.view_params.x_shift, params.view_params.y_shift,
            params.view_params.zoom, params.view_params.x_rot,
            params.view_params.y_rot, params.view_params.time_modifier,
            params.view_params.fov_degrees>>
    /\ buffers.ray_params =
          <<params.ray_params.epsilon, params.ray_params.max_dist,
            params.ray_params.max_steps>>

\* A RAY poll with KeyW and ArrowUp held raised max_dist and rewrote the buffer.
C7_Witness ==
    /\ IsFrame
    /\ HandlerRun = <<"RAY">>
    /\ keys = {"KeyW", "ArrowUp"}
    /\ params.ray_params.max_dist = Rat(1501, 1)
    /\ buffers.ray_params[2] = Rat(1501, 1)

\* C8: epsilon, max_steps and max_dist are never negative.
C8_RayParamsNeverNegative ==
    /\ RLe(Zero, params.ray_params.epsilon)
    /\ RLe(Zero, params.ray_params.max_steps)
    /\ RLe(Zero, params.ray_params.max_dist)

\* The first RAY poll with KeyS and ArrowDown held at max_steps = 0 left it at 0.
C8_Witness ==
    /\ IsFrame
    /\ HandlerRun = <<"RAY">>
    /\ keys = {"KeyS", "ArrowDown"}
    /\ nticks = 1
    /\ params.ray_params.max_steps = Zero

\* One VIEW poll with ShiftLeft held: the rotation field of the first held arrow
\* key, in the order ArrowLeft, ArrowRight, ArrowUp, ArrowDown.
C9_Step ==
    (IsFrame' /\ HandlerRun' = <<"VIEW">> /\ "ShiftLeft" \in keys) =>
        LET v == params.view_params
            w == params'.view_params
        IN  /\ "ArrowLeft" \in keys =>
                  /\ w.x_rot = RMax(Zero, RAdd(v.x_rot, Rat(1, 10)))
                  /\ RLe(Zero, w.x_rot)
            /\ ("ArrowLeft" \notin keys /\ "ArrowRight" \in keys) =>
                  w.x_rot = RSub(v.x_rot, Rat(1, 10))
            /\ ({"ArrowLeft", "ArrowRight"} \cap keys = {} /\ "ArrowUp" \in keys) =>
                  /\ w.y_rot = RMax(Zero, RAdd(v.y_rot, Rat(1, 10)))
                  /\ RLe(Zero, w.y_rot)
            /\ ({"ArrowLeft", "ArrowRight", "ArrowUp"} \cap keys = {}
                    /\ "ArrowDown" \in keys) =>
                  w.y_rot = RSub(v.y_rot, Rat(1, 10))

\* C9: a VIEW tick in the increasing direction sets the rotation to
\* max(0, rot + 0.1), which is never negative; a VIEW tick in the decreasing
\* direction sets it to rot - 0.1 without a clamp.
C9_AsymmetricRotationClamp == [][C9_Step]_vars

\* From x_rot = -0.2 the first poll with ShiftLeft and ArrowLeft held clamped
\* -0.1 to 0, while y_rot is still negative.
C9_Witness ==
    /\ IsFrame
    /\ HandlerRun = <<"VIEW">>
    /\ keys = {"ShiftLeft", "ArrowLeft"}
    /\ nticks = 1
    /\ params.view_params.x_rot = Zero
    /\ RLt(params.view_params.y_rot, Zero)

\* The handler of the frame ran to its end.
ReturnedNormally == trace[Len(trace)] = Op("request_redraw", "window", "")

\* One single-buffer readback of `buffer`.
SingleReadback(buffer) ==
    /\ MapRequests = <<buffer>>
    /\ Len(MapOutcomes) = 1
    /\ MappedReads = (IF MapOutcomes[1] = "Ok" THEN <<buffer>> ELSE <<>>)
    /\ mode = "VIEW"
    /\ ReturnedNormally

\* One interleaved readback of `buffer1` and `buffer2`.
InterleavedReadback(buffer1, buffer2) ==
    /\ MapRequests = <<buffer1, buffer2>>
    /\ Len(MapOutcomes) = 2
    /\ MappedReads =
          (IF MapOutcomes = <<"Ok", "Ok">> THEN <<buffer1, buffer2>> ELSE <<>>)
    /\ mode = "VIEW"
    /\ ReturnedNormally

C11_Step ==
    (IsFrame /\ MapRequests # <<>> /\ IsFrame' /\ keys' = keys)
        => MapRequests' = <<>>

\* C11: a debug readback is one-shot: after a poll that performed a readback,
\* no later poll performs another one while the same keys stay held.
C11_ReadbackOneShot == [][C11_Step]_vars

\* The entry i of the trace is preceded, in this order, by the map request for
\* `buffer`, a blocking device wait, and the delivery of a success result for it.
ConfirmedBefore(i, buffer) ==
    \E l \in 1..(i - 1) :
        /\ trace[l] = Op("block_on", buffer, "Ok")
        /\ \E k \in 1..(l - 1) :
              /\ trace[k] = Op("poll", "device", "Wait")
              /\ \E j \in 1..(k - 1) : trace[j] = Op("map_async", buffer, "Read")

C13_Step ==
    IsFrame' => \A i \in DOMAIN MappedReads' : MappedReads'[i] \in copied

\* C13: every readback of a shadow buffer is preceded by at least one submitted
\* device-to-shadow copy into that buffer, made by an earlier frame, the first
\* frame included.
C13_ReadbackAfterRefresh == [][C13_Step]_vars

\* A Focused event: losing focus empties the key set, regaining it adds no key,
\* neither touches the mode or the parameter blocks.  A poll that starts with
\* no key held changes no parameter block.
C14_Step ==
    /\ (\E s \in {on_focused(Here, FALSE)} : Commit(s)) =>
          /\ keys' = {}
          /\ mode' = mode
          /\ params' = params
    /\ (\E s \in {on_focused(Here, TRUE)} : Commit(s)) =>
          /\ keys' \subseteq keys
          /\ mode' = mode
          /\ params' = params
    /\ (IsFrame' /\ keys = {}) => (keys' = {} /\ params' = params)

\* C14: a focus-lost event empties the held-key set whatever it contained and
\* leaves the mode and the parameter blocks unchanged; regaining focus adds no
\* key; the next poll, with no key event in between, runs with an empty key set
\* and mutates no parameter.
C14_FocusLostClearsKeys == [][C14_Step]_vars

\* Focus was lost after a VIEW poll with ShiftLeft and ArrowUp held had raised
\* y_rot: no key is held any more, y_rot is what the poll left.
C14_Witness ==
    /\ trace = <<Op("println", "stdout", "Window lost focus, cleared keys.")>>
    /\ keys = {}
    /\ mode = "VIEW"
    /\ nticks = 1
    /\ params.view_params.y_rot = Rat(1, 10)

\* One poll: the PRINT handler runs exactly when the poll starts in PRINT with
\* no select key held or when KeyP is the highest-priority held select key; it
\* leaves the three parameter blocks unchanged and sets the mode to VIEW.
C15_Step ==
    IsFrame' =>
        /\ HandlerRun' = <<"PRINT">> <=>
              IF keys \cap ModeSelectKeys = {}
              THEN mode = "PRINT"
              ELSE HighestHeld(keys) = "PRINT"
        /\ HandlerRun' = <<"PRINT">> =>
              /\ params' = params
              /\ mode' = "VIEW"
              /\ Count("println", "stdout")' = 3

\* C15: PRINT is a momentary action: the initial mode is PRINT, whenever the
\* PRINT handler runs it leaves all three parameter blocks unchanged and sets
\* the mode to VIEW, and at the end of every poll the mode is not PRINT.
C15_PrintIsMomentary ==
    /\ mode = "PRINT"
    /\ [][C15_Step]_vars
    /\ [](IsFrame => mode # "PRINT")

\* A poll with KeyP held ran the PRINT handler, printed the three blocks and
\* ended in VIEW.
C15_Witness ==
    /\ IsFrame
    /\ keys = {"KeyP"}
    /\ HandlerRun = <<"PRINT">>
    /\ Count("println", "stdout") = 3
    /\ mode = "VIEW"

\* The operations of State::update after the input controller, then the
\* surface acquisition with result r.
SyncCopyAcquire(r) ==
    <<Op("write_buffer", "view_params", ""),
      Op("copy_buffer_to_buffer", "cpu_read_generic_debug", "generic_debug"),
      Op("copy_buffer_to_buffer", "cpu_read_debug_array1", "debug_array1"),
      Op("copy_buffer_to_buffer", "cpu_read_debug_array2", "debug_array2"),
      Op("submit", "queue", "update_cpu_read_buffers"),
      Op("get_current_texture", "surface", r)>>

\* The render pass of a frame, its submission and the presentation.
RenderPassOps ==
    <<Op("begin_render_pass", "encoder", "Clear(BLACK)"),
      Op("set_pipeline", "render_pass", "render"),
      Op("set_bind_group", "0", "uniform_bg"),
      Op("set_bind_group", "1", "frag_bg"),
      Op("set_bind_group", "2", "sampled_texture_bg"),
      Op("set_vertex_buffer", "0", "vertex"),
      Op("draw", "6", "1"),
      Op("submit", "queue", "Render Encoder"),
      Op("present", "output", "")>>

\* The operations that belong to a render pass, its submission or presentation.
RenderOpNames ==
    {"begin_render_pass", "set_pipeline", "set_bind_group", "set_vertex_buffer",
     "draw", "present"}

\* The position of the first device-to-shadow copy in the trace (0: none).
FirstCopy ==
    LET is == {i \in DOMAIN trace : trace[i][1] = "copy_buffer_to_buffer"}
    IN  IF is = {} THEN 0 ELSE CHOOSE i \in is : \A j \in is : i <= j

\* C16: for each RedrawRequested the operations occur in this order: write the
\* elapsed time to the time-uniform buffer; run the modal input controller;
\* write View Parameters; submit the copies of the three debug device buffers
\* to their shadows; acquire the surface image; then, only if the acquisition
\* succeeded, one render pass (clear to black, bind groups 0, 1, 2, vertex
\* buffer, draw 6 vertices and 1 instance), its submission and the
\* presentation.  The first four steps happen whatever the acquisition returns.
C16_FrameOrder ==
    IsFrame =>
        LET c == FirstCopy
        IN  /\ trace[1] = Op("write_buffer", "time_uniform", "")
            /\ trace[2][1] = "handler"
            /\ Len(HandlerRun) = 1
            /\ c > 3
            /\ Len(trace) >= c + 4
            /\ SubSeq(trace, c - 1, c + 4) = SyncCopyAcquire(Acquired)
            /\ Count("submit", "queue") = (IF Acquired = "Ok" THEN 2 ELSE 1)
            /\ IF Acquired = "Ok"
               THEN /\ Len(trace) >= c + 13
                    /\ SubSeq(trace, c + 5, c + 13) = RenderPassOps
                    /\ \A i \in DOMAIN trace :
                          trace[i][1] \in RenderOpNames => i \in (c + 5)..(c + 13)
               ELSE \A i \in DOMAIN trace : trace[i][1] \notin RenderOpNames

\* A frame whose acquisition succeeded recorded, submitted and presented one pass
\* after the copies of the frame.
C16_Witness ==
    /\ IsFrame
    /\ Acquired = "Ok"
    /\ Count("present", "output") = 1
    /\ Count("draw", "6") = 1
    /\ FirstCopy > 3

\* The position of the operation o on target in the trace (0: none).
Position(o, target) ==
    LET is == {i \in DOMAIN trace : trace[i][1] = o /\ trace[i][2] = target}
    IN  IF is = {} THEN 0 ELSE CHOOSE i \in is : \A j \in is : i <= j

\* The buffers whose error the frame reported, in order.
ErrorsReported ==
    LET test(e) == e[1] = "eprintln" /\ e[3] = "Error retrieving gpu data"
        sel == SelectSeq(trace, test)
    IN  [i \in DOMAIN sel |-> sel[i][2]]

C18_Step ==
    \A w \in ResizeWidths, h \in ResizeHeights :
        ResizeCall(w, h) =>
            IF w > 0 /\ h > 0
            THEN /\ size' = [width |-> w, height |-> h]
                 /\ surface_config' = [width |-> w, height |-> h]
                 /\ trace' = <<Op("configure", "surface", "")>>
            ELSE /\ size' = size
                 /\ surface_config' = surface_config
                 /\ Count("configure", "surface")' = 0

\* C18: State::resize(new_size) with width > 0 and height > 0 sets the cached
\* size and the width and height of the surface configuration to new_size and
\* reconfigures the surface exactly once; with width = 0 or height = 0 it
\* leaves both unchanged and does not reconfigure the surface.
C18_ResizeGuardedByNonZero == [][C18_Step]_vars

\* State::resize was called with a non-zero size other than the initial one.
C18_Witness ==
    /\ trace = <<Op("configure", "surface", "")>>
    /\ size = [width |-> OtherWidth, height |-> OtherHeight]
    /\ surface_config = [width |-> OtherWidth, height |-> OtherHeight]

\* The first held key in the order view_controls tests them ("" when none).
FirstViewKey(held) ==
    IF "ArrowLeft" \in held THEN "ArrowLeft"
    ELSE IF "ArrowRight" \in held THEN "ArrowRight"
    ELSE IF "ArrowUp" \in held THEN "ArrowUp"
    ELSE IF "ArrowDown" \in held THEN "ArrowDown"
    ELSE IF "KeyX" \in held THEN "KeyX"
    ELSE IF "KeyZ" \in held THEN "KeyZ"
    ELSE ""

\* One VIEW tick without ShiftLeft, z the zoom at the start of the tick: the
\* effect of the first held key, and the three documented values.
C19_Step ==
    (IsFrame' /\ HandlerRun' = <<"VIEW">> /\ "ShiftLeft" \notin keys) =>
        LET v == params.view_params
            w == params'.view_params
            z == v.zoom
            k == FirstViewKey(keys)
            hundredth == RDiv(Rat(1, 100), z)
            tenth == RMul(Rat(1, 10), z)
        IN  /\ k = "ArrowLeft" => w = [v EXCEPT !.x_shift = RSub(@, hundredth)]
            /\ k = "ArrowRight" => w = [v EXCEPT !.x_shift = RAdd(@, hundredth)]
            /\ k = "ArrowUp" => w = [v EXCEPT !.y_shift = RSub(@, hundredth)]
            /\ k = "ArrowDown" => w = [v EXCEPT !.y_shift = RAdd(@, hundredth)]
            /\ k = "KeyZ" => w = [v EXCEPT !.zoom = RAdd(z, tenth)]
            /\ k = "KeyX" => w = [v EXCEPT !.zoom = RSub(z, tenth)]
            /\ (k = "ArrowRight" /\ z = Rat(1, 1)) =>
                  w.x_shift = RAdd(v.x_shift, Rat(1, 100))
            /\ (k = "KeyZ" /\ z = Rat(1, 1)) => w.zoom = Rat(11, 10)
            /\ (k = "KeyX" /\ z = Rat(11, 10)) => w.zoom = Rat(99, 100)

\* C19: in a VIEW tick with ShiftLeft not held and z the zoom at the start of
\* the tick, ArrowLeft / ArrowRight change x_shift by -0.01/z / +0.01/z,
\* ArrowUp / ArrowDown change y_shift by -0.01/z / +0.01/z, KeyZ sets zoom to
\* z + 0.1*z and KeyX to z - 0.1*z; from zoom 1 ArrowRight adds 0.01 to
\* x_shift and KeyZ gives 1.1, and KeyX from 1.1 gives 0.99.
C19_PanAndZoomSteps == [][C19_Step]_vars

\* KeyZ from zoom 1, then KeyX from zoom 1.1, left zoom at 0.99.
C19_Witness ==
    /\ IsFrame
    /\ HandlerRun = <<"VIEW">>
    /\ keys = {"KeyX"}
    /\ nticks = 2
    /\ params.view_params.zoom = Rat(99, 100)

\* One poll that starts with neither KeyX nor KeyZ held.
C20_Step ==
    (IsFrame' /\ keys \cap {"KeyX", "KeyZ"} = {}) =>
        params'.view_params.zoom = params.view_params.zoom

\* C20: a poll in which neither zoom key (KeyX, KeyZ) is held leaves zoom
\* exactly unchanged, in every mode and for every other combination of held
\* keys; so does any number of such polls.
C20_ZoomUnchangedWithoutZoomKey == [][C20_Step]_vars

\* After one KeyZ tick, a TERRAIN poll with only Digit1 held left zoom at 1.1.
C20_Witness ==
    /\ IsFrame
    /\ HandlerRun = <<"TERRAIN">>
    /\ keys = {"Digit1"}
    /\ nticks = 1
    /\ params.view_params.zoom = Rat(11, 10)

\* One poll: the handler of the mode the select chain chose, once, and no other;
\* a handler that forced VIEW is not followed by the VIEW handler.
C21_Step ==
    IsFrame' =>
        /\ HandlerRun' =
              <<IF keys \cap ModeSelectKeys = {} THEN mode ELSE HighestHeld(keys)>>
        /\ keys' = keys
        /\ HandlerRun' \in {<<"PRINT">>, <<"DEBUG">>} =>
              params'.view_params = params.view_params

\* C21: in every poll exactly one mode handler runs, the handler of the mode
\* chosen by the transition step, with the key set held at that moment; with
\* no mode-select key held that mode is the mode left by the previous poll; a
\* handler that forces the mode to VIEW (PRINT, or DEBUG after a readback)
\* does not make the VIEW handler run in the same poll.
C21_ExactlyOneHandlerPerPoll == [][C21_Step]_vars

\* A DEBUG poll with KeyD, Digit1 and KeyZ held read back, ended in VIEW and left
\* the zoom alone.
C21_Witness ==
    /\ IsFrame
    /\ keys = {"KeyD", "Digit1", "KeyZ"}
    /\ HandlerRun = <<"DEBUG">>
    /\ MapRequests = <<"cpu_read_debug_array1">>
    /\ mode = "VIEW"
    /\ params.view_params.zoom = Rat(1, 1)

\* The shadow buffers read back on Digit1, Digit2 or Digit3.
ArrayShadows == {"cpu_read_debug_array1", "cpu_read_debug_array2"}

\* One poll: the select chain is applied before the keys of the mode are read.
C22_Step ==
    IsFrame' =>
        /\ (mode = "DEBUG" /\ "KeyD" \notin keys
                /\ keys \cap {"Digit1", "Digit2", "Digit3"} # {}) =>
              /\ mode' = (IF "Digit1" \in keys THEN "TERRAIN"
                          ELSE IF "Digit2" \in keys THEN "VIEW"
                          ELSE "RAY")
              /\ MapRequests' = <<>>
        /\ (\E i \in DOMAIN MapRequests' : MapRequests'[i] \in ArrayShadows) =>
              "KeyD" \in keys
        /\ (mode = "RAY" /\ {"KeyS", "KeyD"} \subseteq keys) =>
              /\ HandlerRun' = <<"DEBUG">>
              /\ MapRequests' = <<"cpu_read_generic_debug">>
              /\ Count("write_buffer", "ray_params")' = 0
              /\ params'.ray_params = params.ray_params

\* C22: mode-select keys take priority over mode-internal keys in the same
\* poll: from DEBUG, Digit1 (resp. Digit2, Digit3) held without KeyD switches
\* the mode to TERRAIN (resp. VIEW, RAY) and performs no readback; a readback
\* of a debug array happens only in a poll where KeyD is held; KeyS held with
\* KeyD in RAY mode triggers the generic readback and leaves max_steps alone.
C22_SelectKeysBeforeModeKeys == [][C22_Step]_vars

\* After a RAY poll with KeyS held (the only kind of tick these keys allow), a
\* poll with KeyD and KeyS held read back the generic buffer and wrote no Ray
\* Parameters.
C22_Witness ==
    /\ IsFrame
    /\ nticks = 1
    /\ keys = {"KeyD", "KeyS"}
    /\ HandlerRun = <<"DEBUG">>
    /\ MapRequests = <<"cpu_read_generic_debug">>
    /\ Count("write_buffer", "ray_params") = 0

\* C23: each redraw makes one surface acquisition attempt and at most one
\* present; the present, and the submission of the render pass, happen if and
\* only if that acquisition succeeded; after a failed acquisition nothing is
\* acquired again before the next redraw.  No other event acquires or presents.
C23_OneAcquisitionPerFrame ==
    /\ IsFrame =>
          /\ Count("get_current_texture", "surface") = 1
          /\ Count("present", "output") = (IF Acquired = "Ok" THEN 1 ELSE 0)
          /\ Count("begin_render_pass", "encoder") = (IF Acquired = "Ok" THEN 1 ELSE 0)
          /\ Cardinality({i \in DOMAIN trace :
                 trace[i] = Op("submit", "queue", "Render Encoder")}) =
                (IF Acquired = "Ok" THEN 1 ELSE 0)
    /\ ~IsFrame =>
          /\ Count("get_current_texture", "surface") = 0
          /\ Count("present", "output") = 0

\* A frame whose acquisition timed out logged the error, presented nothing and
\* asked for the next redraw.
C23_Witness ==
    /\ IsFrame
    /\ Acquired = "Timeout"
    /\ Count("get_current_texture", "surface") = 1
    /\ Count("present", "output") = 0
    /\ Count("eprintln", "stderr") = 1
    /\ Count("request_redraw", "window") = 1

\* C24: the handling of every RedrawRequested ends by requesting another
\* redraw, whatever the render returned; so, when the window source eventually
\* delivers each requested redraw, frames are processed again and again unless
\* exit was requested: Lost, Outdated and Timeout do not stop the frame loop.
C24_FrameLoopNeverStops ==
    /\ [](IsFrame => (ReturnedNormally /\ redraw_requested))
    /\ []((exiting /\ IsFrame) => Acquired = "OutOfMemory")
    /\ \/ []<>(frames = 0) /\ []<>(frames = 1)
       \/ <>exiting

\* A frame whose surface was lost requested the next redraw and did not exit.
C24_Witness ==
    /\ IsFrame
    /\ Acquired = "Lost"
    /\ ReturnedNormally
    /\ redraw_requested
    /\ ~exiting
    /\ MapOutcomes = <<"Ok", "Err">>

\* The positions of the operation o on target in the trace.
Positions(o, target) ==
    {i \in DOMAIN trace : trace[i][1] = o /\ trace[i][2] = target}

\* The map request at position i of the trace is completed: one result is sent
\* for its buffer, right after the device wait that follows the request, and
\* the one blocking receive that follows returns that result.
Completed(i) ==
    LET b == trace[i][2]
        sends == Positions("send", b)
        recvs == Positions("block_on", b)
    IN  /\ Cardinality(sends) = 1
        /\ Cardinality(recvs) = 1
        /\ \A j \in sends, k \in recvs :
              /\ i < j
              /\ j < k
              /\ trace[j - 1] = Op("poll", "device", "Wait")
              /\ i < j - 1
              /\ trace[j][3] \in MapResults
              /\ trace[k][3] = trace[j][3]

\* C25: every readback terminates: the completion callback sends its result on
\* the single-shot channel exactly once, during the blocking device wait, so
\* the blocking receive that follows returns that result, success or error;
\* the handler then runs to its end; there is no timeout path.
C25_ReadbackTerminates ==
    IsFrame =>
        /\ \A i \in DOMAIN trace : trace[i][1] = "map_async" => Completed(i)
        /\ Count("poll", "device") = Len(MapRequests)
        /\ Len(MapOutcomes) = Len(MapRequests)
        /\ ReturnedNormally

\* An interleaved readback whose two mappings were rejected received both errors
\* and the frame ran to its end.
C25_Witness ==
    /\ IsFrame
    /\ Len(MapRequests) = 2
    /\ Details("send") = <<"Err", "Err">>
    /\ MapOutcomes = <<"Err", "Err">>
    /\ ReturnedNormally

\* One poll whose handler is TERRAIN.
C26_Step ==
    (IsFrame' /\ HandlerRun' = <<"TERRAIN">>) =>
        /\ params' = params
        /\ buffers' = buffers
        /\ Count("write_buffer", "ray_params")' = 0
        /\ mode' = "TERRAIN"

\* C26: after initialization nothing writes Terrain Parameters: for any event
\* sequence the host Terrain Parameters keep their initial values (7, 7, 7),
\* and a poll whose handler is TERRAIN changes no parameter block, no contents
\* of a GPU parameter buffer and not the mode.
C26_TerrainParamsNeverWritten ==
    /\ [](params.terrain_params =
             [f1_octaves |-> 7, f2_octaves |-> 7, f3_octaves |-> 7])
    /\ [][C26_Step]_vars

\* After one KeyX tick, a TERRAIN poll with Digit1 and KeyZ held left the zoom at
\* 0.9 and the mode at TERRAIN.
C26_Witness ==
    /\ IsFrame
    /\ HandlerRun = <<"TERRAIN">>
    /\ keys = {"Digit1", "KeyZ"}
    /\ mode = "TERRAIN"
    /\ nticks = 1
    /\ params.view_params.zoom = Rat(9, 10)
    /\ params.terrain_params.f1_octaves = 7

\* ----------------------------------------------------------------- C27
\* The bind groups the render pass of the frame set, in order, as pairs of
\* index and group.
BoundGroups ==
    LET idx == Targets("set_bind_group")
        grp == Details("set_bind_group")
    IN  [i \in DOMAIN idx |->
            <<CHOOSE k \in 0..(Len(idx) - 1) : ToString(k) = idx[i], grp[i]>>]

\* The bind groups of struct BindGroups.
Groups == {"uniform_bg", "frag_bg", "compute_bg", "texture_bg", "sampled_texture_bg"}

\* The binding contracts as they stand in a state.
C27_Contracts ==
    /\ \A i \in DOMAIN BoundGroups :
          bind_groups[BoundGroups[i][2]].layout = pipelines.render[BoundGroups[i][1] + 1]
    /\ pipelines.render = <<"uniform_bgl", "frag_bgl", "sampled_texture_bgl">>
    /\ pipelines.generate_terrain = <<"uniform_bgl", "compute_bgl", "texture_bgl">>
    /\ \A k \in DOMAIN bind_groups.uniform_bgl : bind_groups.uniform_bgl[k].ty = "Uniform"
    /\ \A k \in DOMAIN bind_groups.frag_bgl : bind_groups.frag_bgl[k].ty = "Storage"
    /\ \A k \in DOMAIN bind_groups.compute_bgl : bind_groups.compute_bgl[k].ty = "Storage"
    /\ \A k \in DOMAIN bind_groups.texture_bgl :
          bind_groups.texture_bgl[k].ty = "StorageTexture"
    /\ {bind_groups.sampled_texture_bgl[k].ty : k \in DOMAIN bind_groups.sampled_texture_bgl}
          = {"Texture", "Sampler"}
    /\ \A g \in Groups :
          DOMAIN bind_groups[g].entries = DOMAIN bind_groups[bind_groups[g].layout]
    /\ DOMAIN bind_groups.frag_bgl = {0, 1, 7, 8, 9}
    /\ DOMAIN bind_groups.compute_bgl = {7, 8, 9}
    /\ \A g \in {"frag_bg", "compute_bg"} :
          /\ bind_groups[g].entries[7] = "debug_array1"
          /\ bind_groups[g].entries[8] = "debug_array2"
          /\ bind_groups[g].entries[9] = "generic_debug"

\* C27: the groups the render pass binds at 0, 1, 2 were created against the
\* layouts at 0, 1, 2 of the render pipeline layout (uniform, fragment storage,
\* sampled texture); the compute pipeline layout is (uniform, debug-only
\* storage, read-write storage texture); the entry slots of every bind group
\* are the slots of its layout, {0,1,7,8,9} for the fragment storage group and
\* {7,8,9} for the compute storage group, with 7, 8, 9 bound to debug array 1,
\* debug array 2 and the generic debug buffer in both; and no step replaces a
\* layout, a bind group or a pipeline layout.
C27_BindingContractsFixed ==
    /\ []C27_Contracts
    /\ [][bind_groups' = bind_groups /\ pipelines' = pipelines]_vars

\* A frame whose render pass bound the three groups, after a key event.
C27_Witness ==
    /\ IsFrame
    /\ BoundGroups = <<<<0, "uniform_bg">>, <<1, "frag_bg">>, <<2, "sampled_texture_bg">>>>
    /\ keys # {}
    /\ bind_groups = init_bind_groups

\* ----------------------------------------------------------------- C28
\* The device buffer each host-readable shadow is refreshed from.
DeviceOf(shadow) ==
    CASE shadow = "cpu_read_generic_debug" -> "generic_debug"
      [] shadow = "cpu_read_debug_array1" -> "debug_array1"
      [] shadow = "cpu_read_debug_array2" -> "debug_array2"

\* The writes, resp. copies, of the most recent event handler.
Writes == SelectSeq(transfers, LAMBDA t : t.op = "write_buffer")
Copies == SelectSeq(transfers, LAMBDA t : t.op = "copy_buffer_to_buffer")

\* The buffer sizes and the transfers of the last handler as the claim has them.
C28_Sizes ==
    /\ buffer_size.ray_params = 12
    /\ buffer_size.view_params = 28
    /\ buffer_size.time_uniform = 4
    /\ buffer_size.generic_debug = 16
    /\ buffer_size.debug_array1 = 8192
    /\ buffer_size.debug_array2 = 8192
    /\ \A b \in ShadowBuffers : buffer_size[b] = buffer_size[DeviceOf(b)]
    /\ \A i \in DOMAIN Copies :
          /\ Copies[i].src = DeviceOf(Copies[i].dst)
          /\ Copies[i].len = buffer_size[Copies[i].dst]
          /\ Copies[i].src_offset + Copies[i].len <= buffer_size[Copies[i].src]
          /\ Copies[i].dst_offset + Copies[i].len <= buffer_size[Copies[i].dst]
    /\ \A i \in DOMAIN Writes :
          /\ Writes[i].dst_offset = 0
          /\ Writes[i].len = buffer_size[Writes[i].dst]
    /\ \A g \in Groups : \A k \in DOMAIN bind_groups[g].entries :
          bind_groups[g].entries[k] \in DOMAIN buffer_size =>
              buffer_size[bind_groups[g].entries[k]]
                  >= bind_groups[bind_groups[g].layout][k].min_binding_size

\* C28: the buffers have the sizes of their record shapes (ray 12, view 28,
\* time 4, generic debug 16, each debug array 8192 bytes) and no step changes a
\* size; each shadow has the size of its device buffer; every per-frame copy
\* has that length and stays inside source and destination; every parameter
\* write has the size of the buffer it writes; and every bound buffer is at
\* least as large as the minimum binding size of its layout slot.
C28_BufferSizesFixed ==
    /\ []C28_Sizes
    /\ [][buffer_size' = buffer_size]_vars

\* A frame that wrote the time, the Ray Parameters and the View Parameters and
\* copied the three debug buffers.
C28_Witness ==
    /\ IsFrame
    /\ {Writes[i].dst : i \in DOMAIN Writes} = {"time_uniform", "ray_params", "view_params"}
    /\ {Copies[i].dst : i \in DOMAIN Copies} = ShadowBuffers
    /\ buffers.ray_params # init_buffers(init_params).ray_params

\* ----------------------------------------------------------------- C29
\* The mapped range of `buffer` read as a slice of T.
MappedSlice(buffer, T) == cast_slice(get_mapped_range(buffer_size, buffer), T)

\* The indexed entries the print loop of the most recent handler printed.
Printed ==
    CASE printed.loop = "print_each" ->
            print_each(MappedSlice(printed.buffers[1], printed.T))
      [] printed.loop = "print_zipped" ->
            print_zipped(flatten(MappedSlice(printed.buffers[1], printed.T)),
                         flatten(MappedSlice(printed.buffers[2], printed.T)))
      [] OTHER -> <<>>

\* A debug record of zeros.
ZeroRecord == <<Zero, Zero, Zero, Zero>>

\* C29: a successful readback of zero-filled shadow buffers prints `count`
\* entries with the indices 0, 1, ... in ascending order, each a four-float
\* record of zeros (one record of each buffer in the interleaved readback),
\* where count is 1 for the generic debug buffer and 512 for a debug array, in
\* the single-buffer and in the interleaved readback.
C29_ZeroReadbackIndexedRecords ==
    (IsFrame /\ MappedReads # <<>>) =>
        LET entries == Printed
        IN  /\ Len(entries) =
                  (IF MappedReads[1] = "cpu_read_generic_debug" THEN 1 ELSE 512)
            /\ \A i \in DOMAIN entries :
                  /\ entries[i].idx = i - 1
                  /\ entries[i].obj =
                        (IF Len(MappedReads) = 1
                         THEN ZeroRecord ELSE <<ZeroRecord, ZeroRecord>>)

\* ----------------------------------------------------------------- C30
\* C30: in every reachable state the cached size is the (width, height) of the
\* surface configuration and, the initial window size being non-zero, both
\* dimensions are non-zero; so the resize at the cached size that a frame does
\* on a Lost surface passes the guard and reconfigures the surface.
C30_SizeMatchesConfiguration ==
    /\ size.width = surface_config.width
    /\ size.height = surface_config.height
    /\ size.width > 0
    /\ size.height > 0
    /\ (IsFrame /\ Acquired = "Lost") =>
          /\ Count("configure", "surface") = 1
          /\ size = size_at_render.size

\* A frame that lost its surface and reconfigured it at a size an earlier
\* resize had set.
C30_Witness ==
    /\ IsFrame
    /\ Acquired = "Lost"
    /\ Count("configure", "surface") = 1
    /\ size = [width |-> OtherWidth, height |-> OtherHeight]
    /\ surface_config = [width |-> OtherWidth, height |-> OtherHeight]

\* ----------------------------------------------------------------- C31
\* C31: in every reachable state zoom is strictly positive: it starts at 1.0
\* and a step leaves it as it is, multiplies it by 0.9 (a KeyX tick) or by 1.1
\* (a KeyZ tick); so the divisor of the pan step 0.01 / zoom is never zero.
C31_ZoomPositive ==
    /\ [](RLt(Zero, params.view_params.zoom) /\ params.view_params.zoom[1] # 0)
    /\ [][params.view_params.zoom' \in
             {params.view_params.zoom,
              RMul(Rat(9, 10), params.view_params.zoom),
              RMul(Rat(11, 10), params.view_params.zoom)}]_vars

\* A frame that panned, dividing by a zoom that an earlier KeyX tick lowered.
C31_Witness ==
    /\ IsFrame
    /\ HandlerRun = <<"VIEW">>
    /\ "ArrowRight" \in keys
    /\ params.view_params.zoom = Rat(9, 10)
    /\ params.view_params.x_shift = RDiv(Rat(1, 100), Rat(9, 10))

\* ----------------------------------------------------------------- C32
\* The fields of the parameter blocks whose value differs between p and q.
ChangedFields(p, q) ==
    {<<"ray_params", f>> : f \in {g \in DOMAIN p.ray_params :
                                     p.ray_params[g] # q.ray_params[g]}}
    \cup {<<"view_params", f>> : f \in {g \in DOMAIN p.view_params :
                                           p.view_params[g] # q.view_params[g]}}
    \cup {<<"terrain_params", f>> : f \in {g \in DOMAIN p.terrain_params :
                                              p.terrain_params[g] # q.terrain_params[g]}}

\* The field the first held key of a VIEW poll decides.
ViewField(held) ==
    LET k == FirstViewKey(held)
        shift == "ShiftLeft" \in held
    IN  CASE k \in {"ArrowLeft", "ArrowRight"} -> IF shift THEN "x_rot" ELSE "x_shift"
          [] k \in {"ArrowUp", "ArrowDown"} -> IF shift THEN "y_rot" ELSE "y_shift"
          [] k \in {"KeyX", "KeyZ"} -> "zoom"
          [] OTHER -> ""

\* The field the first held key of a RAY poll decides.
RayField(held) ==
    IF "KeyE" \in held THEN "epsilon"
    ELSE IF "KeyS" \in held THEN "max_steps"
    ELSE IF "KeyW" \in held THEN "max_dist"
    ELSE ""

\* One poll, with the keys held when the frame began.
C32_Step ==
    IsFrame' =>
        LET changed == ChangedFields(params, params')
        IN  /\ Cardinality(changed) <= 1
            /\ HandlerRun' = <<"VIEW">> =>
                  /\ changed \subseteq {<<"view_params", ViewField(keys)>>}
                  /\ params'.ray_params = params.ray_params
            /\ HandlerRun' = <<"RAY">> =>
                  /\ changed \subseteq {<<"ray_params", RayField(keys)>>}
                  /\ params'.view_params = params.view_params
                  /\ RayField(keys) # "" =>
                        params'.ray_params[RayField(keys)] =
                            RMax(Zero,
                                 RAdd(params.ray_params[RayField(keys)],
                                      IF "ArrowUp" \in keys THEN Rat(1, 1)
                                      ELSE IF "ArrowDown" \in keys THEN Rat(-1, 1)
                                      ELSE Zero))
            /\ HandlerRun' \notin {<<"VIEW">>, <<"RAY">>} => changed = {}

\* C32: one poll changes at most one field of the parameter blocks.  In VIEW
\* it is the field of the first held key in the order ArrowLeft, ArrowRight,
\* ArrowUp, ArrowDown, KeyX, KeyZ, so zoom is unchanged when an arrow key is
\* held with a zoom key; in RAY it is the field of the first held key in the
\* order KeyE, KeyS, KeyW, stepped up when ArrowUp is held, down when only
\* ArrowDown is, and kept when neither is.  A RAY poll leaves the View
\* Parameters and a VIEW poll the Ray Parameters as they were.
C32_OneFieldPerPoll == [][C32_Step]_vars

\* A VIEW poll with ArrowDown and KeyZ held panned and left the zoom at 1.
C32_Witness ==
    /\ IsFrame
    /\ HandlerRun = <<"VIEW">>
    /\ keys = {"ArrowDown", "KeyZ"}
    /\ nticks = 1
    /\ params.view_params.y_shift = Rat(1, 100)
    /\ params.view_params.zoom = Rat(1, 1)

\* ----------------------------------------------------------------- C33
\* One step of the event loop, seen from the mode, the parameter blocks and
\* the held keys.
C33_Step ==
    /\ (mode' # mode \/ params' # params \/ buffers' # buffers) => IsFrame'
    /\ IsFrame' =>
          /\ keys' = keys
          /\ \E result1 \in MapResults, result2 \in MapResults :
                LET polled == update_controls(Here, result1, result2)
                IN  mode' = polled.mode /\ params' = polled.params
    /\ ~IsFrame' =>
          \/ keys' = keys
          \/ keys' = {}
          \/ \E key \in Keys : keys' = keys \cup {key} \/ keys' = keys \ {key}
    /\ (~IsFrame' /\ exiting') => keys' = keys

\* C33: a step that changes the mode, a parameter block or a parameter buffer
\* is a RedrawRequested; a KeyboardInput adds the pressed key to the held set
\* or removes the released one and changes nothing else of these, a Focused
\* can only empty the held set, a CloseRequested leaves them all; and what a
\* redraw does to the mode and the parameters is what one poll does with the
\* keys held when it starts, however many key events came before it.
C33_OnlyRedrawChangesModeAndParams == [][C33_Step]_vars

\* After a frame that zoomed out, KeyD went down: two keys are held, the mode
\* and the zoom are still those the frame left.
C33_Witness ==
    /\ trace = <<>>
    /\ keys = {"KeyX", "KeyD"}
    /\ mode = "VIEW"
    /\ nticks = 1
    /\ params.view_params.zoom = Rat(9, 10)

\* ----------------------------------------------------------------- C34
\* The acquisition outcomes after which the event loop goes on.
Recoverable == {"Ok", "Lost", "Outdated", "Timeout"}

\* What the input update of a frame leaves behind: the mode, the parameter
\* blocks, the parameter buffers, the writes and copies, the shadows copied.
InputUpdate(s) ==
    [mode |-> s.mode, params |-> s.params, buffers |-> s.buffers,
     transfers |-> s.transfers, mapped |-> s.mapped,
     mapped_at_copy |-> s.mapped_at_copy, copied |-> s.copied]

\* One frame, compared with the frames the same state, held keys and mapping
\* results give under the other acquisition outcomes.
C34_Step ==
    (IsFrame' /\ Acquired' \in Recoverable) =>
        \E result1 \in MapResults, result2 \in MapResults :
            /\ trace' = on_redraw_requested(Here, result1, result2, Acquired').trace
            /\ \A acquired \in Recoverable :
                  InputUpdate(on_redraw_requested(Here, result1, result2, acquired))
                      = [mode |-> mode', params |-> params', buffers |-> buffers',
                         transfers |-> transfers', mapped |-> mapped',
                         mapped_at_copy |-> mapped_at_copy', copied |-> copied']

\* C34: for the same mode, parameters, held keys and mapping results, the mode,
\* the parameter blocks, the parameter writes and the debug copies after a
\* frame are the same whether its surface acquisition succeeds or fails with
\* Lost, Outdated or Timeout: a frame that presents nothing still applies its
\* parameter changes.
C34_UpdateIndependentOfAcquisition == [][C34_Step]_vars

\* A RAY frame whose acquisition timed out: nothing was presented, max_dist
\* was raised and written, the debug buffers were copied.
C34_Witness ==
    /\ IsFrame
    /\ Acquired = "Timeout"
    /\ Count("present", "output") = 0
    /\ HandlerRun = <<"RAY">>
    /\ keys = {"KeyW", "ArrowUp"}
    /\ params.ray_params.max_dist = Rat(1501, 1)
    /\ buffers.ray_params[2] = Rat(1501, 1)
    /\ Len(Copies) = 3

====
